---- MODULE Spec2Model ----
(***************************************************************************)
(* Model of dbt_checkpoint/check_script_has_no_table_name.py.              *)
(*                                                                         *)
(* Two parts:                                                              *)
(*   - the text helpers (replace_comments, add_space_to_parenthesis,       *)
(*     add_space_to_braces, add_space_to_source_ref), computed character   *)
(*     by character the way re.sub / str.replace compute them;             *)
(*   - main(), as a sequential process with a program counter, together    *)
(*     with has_table_name().  The SQL grammar (sqlfluff), the manifest    *)
(*     loader and the telemetry tracker are external collaborators; their  *)
(*     outcomes are nondeterministic choices of the environment.           *)
(***************************************************************************)
EXTENDS Integers, Sequences, FiniteSets, TLC

VARIABLES
    \* ---- main() ----
    argv,             \* the command line: filenames, --ignore-dotless-table, --dialect
    pc,               \* position of main: start, loop, track, done, raised
    manifest,         \* outcome of get_dbt_manifest
    idx,              \* position of the for loop in args.filenames
    status_code,      \* main's local status_code
    calls,            \* history: one record per has_table_name call
    reads,            \* history: filenames passed to Path(filename).read_text()
    stdout,           \* history: lines printed
    raised,           \* the exception that left main, or "none"
    result,           \* the value returned by main, or "none"
    \* ---- text helpers ----
    sql,              \* the input text
    out,              \* history: the input followed by each helper's output
    step              \* number of helpers applied so far

mainVars == <<argv, pc, manifest, idx, status_code, calls, reads, stdout, raised, result>>
textVars == <<sql, out, step>>
vars == <<argv, pc, manifest, idx, status_code, calls, reads, stdout, raised, result,
          sql, out, step>>

----------------------------------------------------------------------------
(* Bounds *)

MaxFiles == 3
MaxCommentLen == 5
MaxNormLen == 4

Min(S) == CHOOSE x \in S : \A y \in S : x <= y

Texts(alphabet, n) == UNION {[1..k -> alphabet] : k \in 0..n}

CommentAlphabet == {"/", "*", "{", "#", "}", "-", " ", "\n", "a"}
NormAlphabet == {"(", ")", "{", "}", "#", "-", "/", "*", " ", "\n", "a"}

----------------------------------------------------------------------------
(* REGEX_COMMENTS and re.sub(REGEX_COMMENTS, "", sql)                      *)
(* Positions are 1-based; a match is the half-open span [p, e).            *)

\* (?<=(\/\*|\{#)) : the two characters before p are "/*" or "{#"
LookBehind(s, p) ==
    /\ p > 2
    /\ \/ s[p-2] = "/" /\ s[p-1] = "*"
       \/ s[p-2] = "{" /\ s[p-1] = "#"

\* (?=(\*+\/|#\})) : at q there is one or more "*" then "/", or "#}"
LookAhead(s, q) ==
    /\ q <= Len(s)
    /\ \/ s[q] = "#" /\ q + 1 <= Len(s) /\ s[q+1] = "}"
       \/ \E m \in (q+1)..Len(s) : s[m] = "/" /\ \A j \in q..(m-1) : s[j] = "*"

\* first alternative: lookbehind, lazy non-empty run of any characters,
\* lookahead.  The end of the match, or 0 when there is none.
BlockEnd(s, p) ==
    IF LookBehind(s, p)
    THEN LET E == {e \in (p+1)..Len(s) : LookAhead(s, e)}
         IN  IF E = {} THEN 0 ELSE Min(E)
    ELSE 0

\* index of the first character at or after p that is not a space or a tab
SkipBlanks(s, p) ==
    Min({k \in p..Len(s) : s[k] \notin {" ", "\t"}} \cup {Len(s) + 1})

\* end of the line that holds position k (the newline itself is not matched by .)
EndOfLine(s, k) ==
    Min({e \in k..Len(s) : s[e] = "\n"} \cup {Len(s) + 1})

\* [ \t]+--.*  (a blank is required before the dashes)
LineEnd_BlankRequired(s, p) ==
    LET k == SkipBlanks(s, p)
    IN  IF k > p /\ k + 1 <= Len(s) /\ s[k] = "-" /\ s[k+1] = "-"
        THEN EndOfLine(s, k + 2)
        ELSE 0

\* [ \t]*--.+  (a character is required after the dashes)
LineEnd_TextRequired(s, p) ==
    LET k == SkipBlanks(s, p)
    IN  IF k + 2 <= Len(s) /\ s[k] = "-" /\ s[k+1] = "-" /\ s[k+2] # "\n"
        THEN EndOfLine(s, k + 2)
        ELSE 0

\* second alternative: [ \t]*--.*   The end of the match, or 0.
LineEnd(s, p) ==
    LET k == SkipBlanks(s, p)
    IN  IF k + 1 <= Len(s) /\ s[k] = "-" /\ s[k+1] = "-"
        THEN EndOfLine(s, k + 2)
        ELSE 0

\* the alternation tries the block alternative first
REGEX_COMMENTS(s, p) ==
    IF BlockEnd(s, p) # 0 THEN BlockEnd(s, p) ELSE LineEnd(s, p)

\* re.sub: leftmost matches, left to right, not overlapping, each replaced by ""
RECURSIVE SubComments(_, _)
SubComments(s, p) ==
    IF p > Len(s) THEN <<>>
    ELSE LET e == REGEX_COMMENTS(s, p)
         IN  IF e # 0 THEN SubComments(s, e)
             ELSE <<s[p]>> \o SubComments(s, p + 1)

replace_comments(s) == SubComments(s, 1)

----------------------------------------------------------------------------
(* padding helpers *)

REGEX_PARENTHESIS == {"(", ")"}
REGEX_BRACES == {"{", "}"}

\* re.sub(r"([...])", r" \1 ", sql)
RECURSIVE PadChars(_, _)
PadChars(s, chars) ==
    IF s = <<>> THEN <<>>
    ELSE (IF Head(s) \in chars THEN <<" ", Head(s), " ">> ELSE <<Head(s)>>)
         \o PadChars(Tail(s), chars)

add_space_to_parenthesis(s) == PadChars(s, REGEX_PARENTHESIS)

add_space_to_braces(s) == PadChars(s, REGEX_BRACES)

\* str.replace(old, new) for a two-character old: left to right, not overlapping
RECURSIVE Replace2(_, _, _)
Replace2(s, old, new) ==
    IF Len(s) < 2 THEN s
    ELSE IF s[1] = old[1] /\ s[2] = old[2]
         THEN new \o Replace2(SubSeq(s, 3, Len(s)), old, new)
         ELSE <<s[1]>> \o Replace2(Tail(s), old, new)

add_space_to_source_ref(s) ==
    Replace2(Replace2(s, <<"{", "{">>, <<"{", "{", " ">>),
             <<"}", "}">>, <<" ", "}", "}">>)

\* REGEX_SPLIT = r"[\s]+" with re.split: the pieces between maximal
\* whitespace runs, empty pieces at the ends included
Whitespace == {" ", "\t", "\n", "\r"}

SkipWhitespace(s, p) ==
    Min({k \in p..Len(s) : s[k] \notin Whitespace} \cup {Len(s) + 1})

RECURSIVE SplitFrom(_, _, _)
SplitFrom(s, p, cur) ==
    IF p > Len(s) THEN <<cur>>
    ELSE IF s[p] \in Whitespace
         THEN <<cur>> \o SplitFrom(s, SkipWhitespace(s, p), <<>>)
         ELSE SplitFrom(s, p + 1, Append(cur, s[p]))

REGEX_SPLIT(s) == SplitFrom(s, 1, <<>>)

Contains2(s, a, b) == \E i \in 1..(Len(s) - 1) : s[i] = a /\ s[i+1] = b

ContainsAny(s, chars) == \E i \in 1..Len(s) : s[i] \in chars

----------------------------------------------------------------------------
(* The text helpers as steps.  normalize is replace_comments, then         *)
(* add_space_to_parenthesis, then add_space_to_braces, then                *)
(* add_space_to_source_ref; the steps run the chain twice, so that         *)
(* out[5] = normalize(sql) and out[9] = normalize(normalize(sql)).         *)

Current == out[Len(out)]

ReplaceComments ==
    /\ step \in {0, 4}
    /\ out' = Append(out, replace_comments(Current))
    /\ step' = step + 1
    /\ UNCHANGED <<sql, mainVars>>

AddSpaceToParenthesis ==
    /\ step \in {1, 5}
    /\ out' = Append(out, add_space_to_parenthesis(Current))
    /\ step' = step + 1
    /\ UNCHANGED <<sql, mainVars>>

AddSpaceToBraces ==
    /\ step \in {2, 6}
    /\ out' = Append(out, add_space_to_braces(Current))
    /\ step' = step + 1
    /\ UNCHANGED <<sql, mainVars>>

AddSpaceToSourceRef ==
    /\ step \in {3, 7}
    /\ out' = Append(out, add_space_to_source_ref(Current))
    /\ step' = step + 1
    /\ UNCHANGED <<sql, mainVars>>

----------------------------------------------------------------------------
(* The environment of main()                                               *)

Dialects == {"ansi", "postgres"}

\* the scripts on disk: what the grammar answers for each, per dialect.
\* A table reference is the sequence of its dot-separated parts.
Disk ==
    [ f \in {"clean.sql", "bare.sql", "dotless.sql", "malformed.sql", "postgres.sql"} |->
        CASE f = "clean.sql"     -> [parses |-> Dialects,     refs |-> {}]
          [] f = "bare.sql"      -> [parses |-> Dialects,     refs |-> {<<"raw", "orders">>}]
          [] f = "dotless.sql"   -> [parses |-> Dialects,     refs |-> {<<"orders">>}]
          [] f = "malformed.sql" -> [parses |-> {},           refs |-> {}]
          [] f = "postgres.sql"  -> [parses |-> {"postgres"}, refs |-> {<<"raw", "events">>}] ]

FileNames == DOMAIN Disk

FileLists == UNION {[1..k -> FileNames] : k \in 0..MaxFiles}

\* parser.add_argument(...) and parser.parse_args(argv): the defaults applied
parse_args(a) ==
    [ filenames            |-> a.filenames,
      ignore_dotless_table |-> a.ignore_dotless_table,
      dialect              |-> IF a.dialect = "absent" THEN "ansi" ELSE a.dialect ]

args == parse_args(argv)

\* sqlfluff.parse(sql, config) followed by tree.get_table_references():
\* raises when the grammar of the dialect cannot parse the text
sqlfluff_parse(text, dialect) ==
    IF dialect \in text.parses
    THEN [raised |-> FALSE, table_names |-> text.refs]
    ELSE [raised |-> TRUE,  table_names |-> {}]

\* has_table_name(sql, filename, dotless, dialect): the outcome of the call
has_table_name(text, filename, dotless, dialect) ==
    LET parsed_sql == sqlfluff_parse(text, dialect)
    IN  [ filename    |-> filename,
          dotless     |-> dotless,
          dialect     |-> dialect,
          raised      |-> parsed_sql.raised,
          status_code |-> 0,
          table_names |-> parsed_sql.table_names ]

\* the call main makes: dialect is not passed, so the default applies
CallHasTableName(filename) ==
    has_table_name(Disk[filename], filename, args.ignore_dotless_table, "ansi")

----------------------------------------------------------------------------
(* main()                                                                  *)

\* get_dbt_manifest(args) returns
LoadManifest ==
    /\ pc = "start"
    /\ manifest' = "loaded"
    /\ pc' = "loop"
    /\ UNCHANGED <<argv, idx, status_code, calls, reads, stdout, raised, result, textVars>>

\* the handler prints but does not return
LoadManifestFails_NoReturn ==
    /\ pc = "start"
    /\ manifest' = "JsonOpenError"
    /\ stdout' = Append(stdout, [line |-> "Unable to load manifest file", file |-> "none"])
    /\ pc' = "loop"
    /\ UNCHANGED <<argv, idx, status_code, calls, reads, raised, result, textVars>>

\* get_dbt_manifest(args) raises JsonOpenError
LoadManifestFails ==
    /\ pc = "start"
    /\ manifest' = "JsonOpenError"
    /\ stdout' = Append(stdout, [line |-> "Unable to load manifest file", file |-> "none"])
    /\ result' = 1
    /\ pc' = "done"
    /\ UNCHANGED <<argv, idx, status_code, calls, reads, raised, textVars>>

\* one iteration of the for loop in which has_table_name returns
CheckFile ==
    /\ pc = "loop"
    /\ idx <= Len(args.filenames)
    /\ LET filename == args.filenames[idx]
           call == CallHasTableName(filename)
       IN  /\ ~call.raised
           /\ reads' = Append(reads, filename)
           /\ calls' = Append(calls, call)
           /\ IF call.status_code # 0
              THEN /\ stdout' = Append(stdout,
                        [line |-> "does not use source() or ref() macros for tables",
                         file |-> filename])
                   /\ status_code' = call.status_code
              ELSE UNCHANGED <<stdout, status_code>>
    /\ idx' = idx + 1
    /\ UNCHANGED <<argv, pc, manifest, raised, result, textVars>>

\* one iteration in which sqlfluff.parse raises: nothing in main catches it
CheckFileRaises ==
    /\ pc = "loop"
    /\ idx <= Len(args.filenames)
    /\ LET filename == args.filenames[idx]
           call == CallHasTableName(filename)
       IN  /\ call.raised
           /\ reads' = Append(reads, filename)
           /\ calls' = Append(calls, call)
    /\ raised' = "APIParsingError"
    /\ pc' = "raised"
    /\ UNCHANGED <<argv, manifest, idx, status_code, stdout, result, textVars>>

\* the loop is over; dbtCheckpointTracking(script_args=...) returns
ConstructTracker ==
    /\ pc = "loop"
    /\ idx > Len(args.filenames)
    /\ pc' = "track"
    /\ UNCHANGED <<argv, manifest, idx, status_code, calls, reads, stdout, raised, result, textVars>>

\* the loop is over; dbtCheckpointTracking(script_args=...) raises
ConstructTrackerRaises ==
    /\ pc = "loop"
    /\ idx > Len(args.filenames)
    /\ raised' = "dbtCheckpointTracking"
    /\ pc' = "raised"
    /\ UNCHANGED <<argv, manifest, idx, status_code, calls, reads, stdout, result, textVars>>

\* tracker.track_hook_event(...) returns; main returns status_code
TrackHookEvent ==
    /\ pc = "track"
    /\ result' = status_code
    /\ pc' = "done"
    /\ UNCHANGED <<argv, manifest, idx, status_code, calls, reads, stdout, raised, textVars>>

\* tracker.track_hook_event(...) raises
TrackHookEventRaises ==
    /\ pc = "track"
    /\ raised' = "track_hook_event"
    /\ pc' = "raised"
    /\ UNCHANGED <<argv, manifest, idx, status_code, calls, reads, stdout, result, textVars>>

----------------------------------------------------------------------------
(* Specifications *)

MainIdle ==
    /\ argv = [filenames |-> <<>>, ignore_dotless_table |-> FALSE, dialect |-> "absent"]
    /\ pc = "start"
    /\ manifest = "unloaded"
    /\ idx = 1
    /\ status_code = 0
    /\ calls = <<>>
    /\ reads = <<>>
    /\ stdout = <<>>
    /\ raised = "none"
    /\ result = "none"

TextIdle ==
    /\ sql = <<>>
    /\ out = <<sql>>
    /\ step = 0

\* main() on every command line
Init ==
    /\ argv \in [filenames : FileLists,
                 ignore_dotless_table : BOOLEAN,
                 dialect : {"absent"} \cup Dialects]
    /\ pc = "start"
    /\ manifest = "unloaded"
    /\ idx = 1
    /\ status_code = 0
    /\ calls = <<>>
    /\ reads = <<>>
    /\ stdout = <<>>
    /\ raised = "none"
    /\ result = "none"
    /\ TextIdle

Next ==
    \/ LoadManifest
    \/ LoadManifestFails
    \/ CheckFile
    \/ CheckFileRaises
    \/ ConstructTracker
    \/ ConstructTrackerRaises
    \/ TrackHookEvent
    \/ TrackHookEventRaises

Spec == Init /\ [][Next]_vars

\* replace_comments on every text
InitComments ==
    /\ MainIdle
    /\ sql \in Texts(CommentAlphabet, MaxCommentLen)
    /\ out = <<sql>>
    /\ step = 0

NextComments == step = 0 /\ ReplaceComments

SpecComments == InitComments /\ [][NextComments]_vars

\* normalize, twice, on every text
InitNorm ==
    /\ MainIdle
    /\ sql \in Texts(NormAlphabet, MaxNormLen)
    /\ out = <<sql>>
    /\ step = 0

NextNorm ==
    \/ ReplaceComments
    \/ AddSpaceToParenthesis
    \/ AddSpaceToBraces
    \/ AddSpaceToSourceRef

SpecNorm == InitNorm /\ [][NextNorm]_vars

----------------------------------------------------------------------------
(* Claims *)

Terminal == pc \in {"done", "raised"}

\* C1: when the manifest loads, the status main returns is non-zero if and
\* only if some file's returned table set is non-empty or some file raised a
\* parse error.
C1_AggregateStatus ==
    (pc = "done" /\ manifest = "loaded") =>
        ((result # 0) <=>
            \E k \in 1..Len(calls) : calls[k].raised \/ calls[k].table_names # {})

\* C2: the per-file status has_table_name returns is 0 when the returned set
\* is empty and non-zero when it is not.
C2_FileStatus ==
    \A k \in 1..Len(calls) :
        ~calls[k].raised =>
            /\ calls[k].table_names = {} => calls[k].status_code = 0
            /\ calls[k].table_names # {} => calls[k].status_code # 0

\* C3: when loading the manifest fails, main has printed the cause and
\* nothing else, returned 1, and read and checked no file.
C3_ManifestFailure ==
    manifest = "JsonOpenError" =>
        /\ pc = "done"
        /\ result = 1
        /\ raised = "none"
        /\ reads = <<>>
        /\ calls = <<>>
        /\ stdout = <<[line |-> "Unable to load manifest file", file |-> "none"]>>

C3_Witness ==
    /\ manifest = "JsonOpenError"
    /\ pc = "done"
    /\ Len(args.filenames) >= 2

\* C4: a parse failure on one file is local: when the run is over every file
\* of the list has been checked and main has returned a non-zero status.
C4_ParseFailureLocal ==
    (Terminal /\ \E k \in 1..Len(calls) : calls[k].raised) =>
        /\ pc = "done"
        /\ result # "none" /\ result # 0
        /\ Len(calls) = Len(args.filenames)

\* C5: when the manifest loads, the files checked by the end of the run are
\* exactly the files supplied, each once, in the order supplied.
C5_EachFileOnceInOrder ==
    (Terminal /\ manifest = "loaded") =>
        /\ Len(calls) = Len(args.filenames)
        /\ \A k \in 1..Len(calls) : calls[k].filename = args.filenames[k]

\* C6: a failure of the telemetry collaborator does not change the outcome:
\* main still returns the status computed from the files.
C6_TelemetryFailureSwallowed ==
    (Terminal /\ raised \in {"dbtCheckpointTracking", "track_hook_event"}) =>
        /\ pc = "done"
        /\ result = status_code

\* C7: every file is parsed with the dialect requested by --dialect
\* ("ansi" when the option is absent).
C7_RequestedDialect ==
    \A k \in 1..Len(calls) : calls[k].dialect = args.dialect

\* C8: with --ignore-dotless-table, no single-part identifier is in the set
\* returned for a file.
C8_DotlessExempt ==
    args.ignore_dotless_table =>
        \A k \in 1..Len(calls) :
            \A t \in calls[k].table_names : Len(t) > 1

ContainsComment(s) ==
    \/ Contains2(s, "-", "-")
    \/ \E i \in 1..(Len(s) - 1) :
          /\ (s[i] = "/" /\ s[i+1] = "*") \/ (s[i] = "{" /\ s[i+1] = "#")
          /\ \E j \in (i+3)..(Len(s) - 1) :
                (s[j] = "*" /\ s[j+1] = "/") \/ (s[j] = "#" /\ s[j+1] = "}")

\* every block delimiter of the text belongs to a comment: each opener has a
\* closer after it and each closer an opener before it
DelimitersPaired(s) ==
    \A i \in 1..(Len(s) - 1) :
        /\ ((s[i] = "/" /\ s[i+1] = "*") \/ (s[i] = "{" /\ s[i+1] = "#")) =>
               \E j \in (i+2)..(Len(s) - 1) :
                   (s[j] = "*" /\ s[j+1] = "/") \/ (s[j] = "#" /\ s[j+1] = "}")
        /\ ((s[i] = "*" /\ s[i+1] = "/") \/ (s[i] = "#" /\ s[i+1] = "}")) =>
               \E j \in 1..(i-2) :
                   (s[j] = "/" /\ s[j+1] = "*") \/ (s[j] = "{" /\ s[j+1] = "#")

====
